---- MODULE Spec2Model ----
(***************************************************************************)
(* Account service of server.js: four Express handlers (register, login,   *)
(* add-points, get-user) over one PostgreSQL table `users`.                *)
(*                                                                         *)
(* Each handler is split where the code awaits: at bcrypt.hash, at the     *)
(* SQL statement (one atomic statement of the store) and at                *)
(* bcrypt.compare.  Handlers of different requests interleave between      *)
(* these steps, as they do on the Node event loop.  The CREATE TABLE of    *)
(* the start-up is not awaited either: requests are served before it has   *)
(* completed, and when it fails.                                           *)
(*                                                                         *)
(* A nullable SQL / JSON value is a sequence: <<>> is NULL (also a field   *)
(* that is missing from the request body, which node-postgres sends as     *)
(* NULL), <<v>> is the value v.                                            *)
(*                                                                         *)
(* A password is a sequence of characters.                                 *)
(*                                                                         *)
(* Modelling assumptions: the store is reachable (no connection errors),   *)
(* ids and deltas in requests are integers or missing, strings fit their   *)
(* VARCHAR columns.  The column created_at is never read by the code and   *)
(* is left out.                                                            *)
(***************************************************************************)
EXTENDS Integers, Sequences, FiniteSets, TLC

VARIABLES table_exists, users, users_id_seq, inflight, last, registered, plain,
          credited, updated, nreq

vars == <<table_exists, users, users_id_seq, inflight, last, registered, plain,
          credited, updated, nreq>>

-----------------------------------------------------------------------------
(* Bounds *)

\* total number of requests issued in a behaviour
MaxRequests == 2

-----------------------------------------------------------------------------
(* Values *)

NULL == <<>>
Val(v) == <<v>>
Get(o) == o[1]

\* INTEGER column: 32-bit signed
MaxInt == 2147483647
MinInt == -MaxInt - 1

Procs == {"h1", "h2"}

Emails == {"a@x.com", "b@x.com"}
Usernames == {"alice", "bob"}
\* bcrypt reads the first 72 bytes of a password
BcryptMaxBytes == 72
\* a short password and a different one
Password == <<"s", "e", "c", "r", "e", "t">>
OtherPassword == <<"w", "r", "o", "n", "g">>
\* two passwords of 73 characters that differ in the last one only
LongPassword == [i \in 1..BcryptMaxBytes |-> "a"] \o <<"1">>
LongOtherPassword == [i \in 1..BcryptMaxBytes |-> "a"] \o <<"2">>
\* bcrypt.genSalt output
Salts == {"s1"}
\* ids that requests name; the table hands out 1, 2, 3, ...
UserIds == {1, 2}
\* signed deltas; MaxInt makes the INTEGER column overflow
Deltas == {1, -2, MaxInt}

\* request bodies of POST /api/register: every pair of email and username,
\* and one body for each field that can be missing
RegisterBodies ==
    [email : {Val(e) : e \in Emails}, username : {Val(u) : u \in Usernames},
     password : {Val(Password)}]
    \cup {[email |-> Val("b@x.com"), username |-> Val("bob"),
           password |-> Val(LongPassword)],
          [email |-> NULL, username |-> Val("alice"), password |-> Val(Password)],
          [email |-> Val("a@x.com"), username |-> NULL, password |-> Val(Password)],
          [email |-> Val("a@x.com"), username |-> Val("alice"), password |-> NULL]}

\* request bodies of POST /api/login
LoginBodies ==
    [username : {Val(u) : u \in Usernames},
     password : {Val(Password), Val(OtherPassword), NULL}]
    \cup {[username |-> NULL, password |-> Val(Password)],
          [username |-> Val("bob"), password |-> Val(LongPassword)],
          [username |-> Val("bob"), password |-> Val(LongOtherPassword)]}

\* request bodies of POST /api/add-points
AddPointsBodies ==
    [userId : {Val(i) : i \in UserIds},
     points : {Val(d) : d \in Deltas} \cup {NULL}]
    \cup {[userId |-> NULL, points |-> Val(1)]}

\* route parameters of GET /api/user/:userId
GetUserParams == [userId : {Val(i) : i \in UserIds}]

-----------------------------------------------------------------------------
(* bcrypt *)

\* err.message of the rejections of bcrypt.hash and bcrypt.compare
HashArgumentsRequired == "data and salt arguments required"
CompareArgumentsRequired == "data and hash arguments required"

\* the part of a password that bcrypt reads
Truncate(data) ==
    IF Len(data) > BcryptMaxBytes THEN SubSeq(data, 1, BcryptMaxBytes) ELSE data

\* the digest bcrypt derives from a salt and a password
Digest(salt, data) == <<"bf", salt, Truncate(data)>>

\* bcrypt.hash(data, 10): rejects when data is missing
BcryptHash(data, salt) ==
    IF data = NULL
    THEN [ok |-> FALSE, message |-> HashArgumentsRequired]
    ELSE [ok |-> TRUE, hash |-> [salt |-> salt, digest |-> Digest(salt, Get(data))]]

\* bcrypt.compare with the salt and the data taken in the wrong order
BcryptCompareSwapped(data, hash) ==
    IF data = NULL
    THEN [ok |-> FALSE, message |-> CompareArgumentsRequired]
    ELSE [ok |-> TRUE, valid |-> (Digest(Get(data), hash.salt) = hash.digest)]

\* bcrypt.compare(data, hash): rejects when data is missing, otherwise
\* re-derives the digest with the salt stored in the hash
BcryptCompare(data, hash) ==
    IF data = NULL
    THEN [ok |-> FALSE, message |-> CompareArgumentsRequired]
    ELSE [ok |-> TRUE, valid |-> (Digest(hash.salt, Get(data)) = hash.digest)]

-----------------------------------------------------------------------------
(* The store: table users and its SQL statements *)

\* err.message of the errors the store raises on these statements
NotNullEmail ==
    "null value in column \"email\" of relation \"users\" violates not-null constraint"
NotNullUsername ==
    "null value in column \"username\" of relation \"users\" violates not-null constraint"
DuplicateId == "duplicate key value violates unique constraint \"users_pkey\""
DuplicateEmail == "duplicate key value violates unique constraint \"users_email_key\""
DuplicateUsername == "duplicate key value violates unique constraint \"users_username_key\""
IntegerOutOfRange == "integer out of range"
RelationMissing == "relation \"users\" does not exist"

\* the outcome of awaiting pool.query: an error thrown, or result.rows
Threw(msg) == [ok |-> FALSE, message |-> msg]
Rows(rs) == [ok |-> TRUE, rows |-> rs]

Range(s) == {s[i] : i \in DOMAIN s}

\* RETURNING id, email, username, points / SELECT id, email, username, points
Project4(r) == [id |-> r.id, email |-> r.email, username |-> r.username, points |-> r.points]
\* RETURNING id, username, points
Project3(r) == [id |-> r.id, username |-> r.username, points |-> r.points]

MapSeq(F(_), s) == [i \in DOMAIN s |-> F(s[i])]

\* the INSERT on a table whose username column is not UNIQUE
InsertNoUniqueUsername(tbl, seq, email, username, password) ==
    LET id == seq + 1
        row == [id |-> id, email |-> Get(email), username |-> Get(username),
                password |-> password, points |-> Val(0)]
    IN  IF email = NULL
        THEN [users |-> tbl, seq |-> id,
              res |-> Threw(NotNullEmail)]
        ELSE IF username = NULL
        THEN [users |-> tbl, seq |-> id,
              res |-> Threw(NotNullUsername)]
        ELSE IF \E r \in Range(tbl) : r.email = Get(email)
        THEN [users |-> tbl, seq |-> id,
              res |-> Threw(DuplicateEmail)]
        ELSE [users |-> Append(tbl, row), seq |-> id,
              res |-> Rows(<<Project4(row)>>)]

\* the INSERT on a table whose email column is not UNIQUE
InsertNoUniqueEmail(tbl, seq, email, username, password) ==
    LET id == seq + 1
        row == [id |-> id, email |-> Get(email), username |-> Get(username),
                password |-> password, points |-> Val(0)]
    IN  IF email = NULL
        THEN [users |-> tbl, seq |-> id,
              res |-> Threw(NotNullEmail)]
        ELSE IF username = NULL
        THEN [users |-> tbl, seq |-> id,
              res |-> Threw(NotNullUsername)]
        ELSE IF \E r \in Range(tbl) : r.username = Get(username)
        THEN [users |-> tbl, seq |-> id,
              res |-> Threw(DuplicateUsername)]
        ELSE [users |-> Append(tbl, row), seq |-> id,
              res |-> Rows(<<Project4(row)>>)]

\* the INSERT on a table whose points column has no DEFAULT 0
InsertNoDefault(tbl, seq, email, username, password) ==
    LET id == seq + 1
        row == [id |-> id, email |-> Get(email), username |-> Get(username),
                password |-> password, points |-> NULL]
    IN  IF email = NULL
        THEN [users |-> tbl, seq |-> id,
              res |-> Threw(NotNullEmail)]
        ELSE IF username = NULL
        THEN [users |-> tbl, seq |-> id,
              res |-> Threw(NotNullUsername)]
        ELSE IF \E r \in Range(tbl) : r.email = Get(email)
        THEN [users |-> tbl, seq |-> id,
              res |-> Threw(DuplicateEmail)]
        ELSE IF \E r \in Range(tbl) : r.username = Get(username)
        THEN [users |-> tbl, seq |-> id,
              res |-> Threw(DuplicateUsername)]
        ELSE [users |-> Append(tbl, row), seq |-> id,
              res |-> Rows(<<Project4(row)>>)]

\* INSERT INTO users (email, username, password) VALUES ($1, $2, $3)
\* RETURNING id, email, username, points.
\* The SERIAL default draws nextval before the constraints are checked, so
\* a rejected insert still consumes an id.
Insert(tbl, seq, email, username, password) ==
    LET id == seq + 1
        row == [id |-> id, email |-> Get(email), username |-> Get(username),
                password |-> password, points |-> Val(0)]
    IN  IF email = NULL
        THEN [users |-> tbl, seq |-> id,
              res |-> Threw(NotNullEmail)]
        ELSE IF username = NULL
        THEN [users |-> tbl, seq |-> id,
              res |-> Threw(NotNullUsername)]
        ELSE IF \E r \in Range(tbl) : r.id = id
        THEN [users |-> tbl, seq |-> id,
              res |-> Threw(DuplicateId)]
        ELSE IF \E r \in Range(tbl) : r.email = Get(email)
        THEN [users |-> tbl, seq |-> id,
              res |-> Threw(DuplicateEmail)]
        ELSE IF \E r \in Range(tbl) : r.username = Get(username)
        THEN [users |-> tbl, seq |-> id,
              res |-> Threw(DuplicateUsername)]
        ELSE [users |-> Append(tbl, row), seq |-> id,
              res |-> Rows(<<Project4(row)>>)]

\* SELECT * FROM users WHERE username = $1
SelectByUsername(tbl, username) ==
    Rows(SelectSeq(tbl, LAMBDA r : Val(r.username) = username))

\* SELECT id, email, username, points FROM users WHERE id = $1
SelectById(tbl, userId) ==
    Rows(MapSeq(Project4, SelectSeq(tbl, LAMBDA r : Val(r.id) = userId)))

\* integer addition of the store: a result outside the INTEGER range is the
\* error IntegerOutOfRange (tested without leaving the range)
OutOfRange(a, b) ==
    \/ b > 0 /\ a > MaxInt - b
    \/ b < 0 /\ a < MinInt - b

\* points + $1 on a nullable INTEGER column: NULL absorbs
SqlAdd(a, b) == IF a = NULL \/ b = NULL THEN NULL ELSE Val(Get(a) + Get(b))

\* the UPDATE written as SET points = $1: the delta overwrites the counter
UpdatePointsOverwrite(tbl, points, userId) ==
    LET hit(r) == Val(r.id) = userId
        upd(r) == IF hit(r) THEN [r EXCEPT !.points = points] ELSE r
        new == MapSeq(upd, tbl)
    IN  [users |-> new, res |-> Rows(MapSeq(Project3, SelectSeq(new, hit)))]

\* the UPDATE written without its WHERE clause: every row is credited
UpdatePointsNoWhere(tbl, points, userId) ==
    LET upd(r) == [r EXCEPT !.points = SqlAdd(r.points, points)]
        new == MapSeq(upd, tbl)
    IN  IF \E r \in Range(tbl) :
               r.points # NULL /\ points # NULL /\ OutOfRange(Get(r.points), Get(points))
        THEN [users |-> tbl, res |-> Threw(IntegerOutOfRange)]
        ELSE [users |-> new, res |-> Rows(MapSeq(Project3, new))]

\* UPDATE users SET points = points + $1 WHERE id = $2
\* RETURNING id, username, points
UpdatePoints(tbl, points, userId) ==
    LET hit(r) == Val(r.id) = userId
        upd(r) == IF hit(r) THEN [r EXCEPT !.points = SqlAdd(r.points, points)] ELSE r
        new == MapSeq(upd, tbl)
    IN  IF \E r \in Range(tbl) :
               hit(r) /\ r.points # NULL /\ points # NULL
                      /\ OutOfRange(Get(r.points), Get(points))
        THEN [users |-> tbl, res |-> Threw(IntegerOutOfRange)]
        ELSE [users |-> new,
              res |-> Rows(MapSeq(Project3, SelectSeq(new, hit)))]

-----------------------------------------------------------------------------
(* Handlers *)

Idle == [op |-> "idle"]
NoResponse == [op |-> "none"]

\* source literal: the Russian text for "Invalid username or password"
InvalidLoginMessage == "Invalid username or password"
\* source literal: the Russian text for "User not found"
UserNotFoundMessage == "User not found"

\* res.json(...) and res.status(...).json(...)
Ok(user) == [status |-> 200, success |-> TRUE, user |-> user]
Fail(status, msg) == [status |-> status, success |-> FALSE, message |-> msg]

(* History variables, read by the properties only:
   registered     the accounts a register response has announced, with the
                  password they were registered with
   plain          the password each stored row was inserted with
   credited       per user id, the deltas of the add-points calls answered 200
   updated        the ids whose row an UPDATE statement has hit
   The fields of inflight and last other than op, pc, body, result and res
   are history fields too: what held when the request arrived (dup) or when
   its statement ran. *)

Ids(tbl) == {r.id : r \in Range(tbl)}
Matching(tbl, userId) == {r \in Range(tbl) : Val(r.id) = userId}

\* 32-bit values and sums of deltas as hi * MaxInt + lo, so that a sum of
\* deltas beyond the INTEGER range can still be written down
Wide(n) ==
    IF n > MaxInt \div 2 THEN [hi |-> 1, lo |-> n - MaxInt]
    ELSE IF n < -(MaxInt \div 2) THEN [hi |-> -1, lo |-> n + MaxInt]
    ELSE [hi |-> 0, lo |-> n]
WideAdd(w, x) == [hi |-> w.hi + x.hi, lo |-> w.lo + x.lo]

NoCredit == [sum |-> Wide(0), nulls |-> FALSE]
CreditOf(id) == IF id \in DOMAIN credited THEN credited[id] ELSE NoCredit
AddDelta(c, delta) ==
    IF delta = NULL THEN [c EXCEPT !.nulls = TRUE]
    ELSE [c EXCEPT !.sum = WideAdd(c.sum, Wide(Get(delta)))]
Credit(id, delta) ==
    [i \in DOMAIN credited \cup {id} |->
        IF i = id THEN AddDelta(CreditOf(id), delta) ELSE credited[i]]

\* why a login with this body has to fail, or "right", from the history
Cause(body) ==
    LET rows == {r \in Range(users) : Val(r.username) = body.username}
    IN  IF rows = {} THEN "unknown"
        ELSE IF body.password = NULL THEN "missing"
        ELSE IF \E r \in rows : plain[r.id] = Get(body.password) THEN "right"
        ELSE "wrong"

\* what a login with this body is owed once a register response has
\* announced the account: the announced identity with the row's points
Expect(body) ==
    {[id |-> a.id, email |-> a.email, username |-> a.username, points |-> r.points] :
        <<a, r>> \in {x \in registered \X Range(users) :
                        /\ x[2].id = x[1].id
                        /\ Val(x[1].username) = body.username
                        /\ Val(x[1].password) = body.password}}

\* a handled request: the request with its history fields and the response
Answered(req, res) ==
    [f \in (DOMAIN req \ {"result", "pc"}) \cup {"res"} |->
        IF f = "res" THEN res ELSE req[f]]

\* what an earlier run of the server has left in the database: one account
EarlierRow ==
    [id |-> 1, email |-> "a@x.com", username |-> "alice",
     password |-> BcryptHash(Val(Password), "s1").hash, points |-> Val(0)]

\* The server starts listening with its CREATE TABLE IF NOT EXISTS under way,
\* on a database without the table or on one that an earlier run has filled.
Init ==
    /\ inflight = [p \in Procs |-> Idle]
    /\ last = NoResponse
    /\ credited = [i \in {} |-> NoCredit]
    /\ updated = {}
    /\ nreq = 0
    /\ \/ /\ table_exists = FALSE
          /\ users = <<>>
          /\ users_id_seq = 0
          /\ plain = [i \in {} |-> <<>>]
          /\ registered = {}
       \/ /\ table_exists = TRUE
          /\ users = <<EarlierRow>>
          /\ users_id_seq = 1
          /\ plain = [i \in {1} |-> Password]
          /\ registered = {[id |-> 1, email |-> "a@x.com", username |-> "alice",
                            password |-> Password]}

\* CREATE TABLE IF NOT EXISTS users completes.  When it fails the error is
\* logged and the table stays missing: this step is never taken.
CreateTable ==
    /\ ~table_exists
    /\ table_exists' = TRUE
    /\ UNCHANGED <<users, users_id_seq, inflight, last, registered, plain, credited,
                   updated, nreq>>

Begin(p) == inflight[p] = Idle /\ nreq < MaxRequests /\ nreq' = nreq + 1

Stored(body) ==
    \E r \in Range(users) : Val(r.email) = body.email \/ Val(r.username) = body.username

\* POST /api/register up to await bcrypt.hash
Register(p) ==
    \E body \in RegisterBodies :
        /\ Begin(p)
        /\ inflight' = [inflight EXCEPT ![p] =
               [op |-> "register", pc |-> "hashing", body |-> body,
                dup |-> Stored(body),
                table |-> FALSE, stored |-> FALSE, seen |-> {}]]
        /\ UNCHANGED <<table_exists, users, users_id_seq, last, registered, plain,
                       credited, updated>>

\* response of POST /api/register
RegisterResponse(res) ==
    IF res.ok THEN Ok(res.rows[1]) ELSE Fail(400, res.message)

\* bcrypt.hash rejects: the catch block answers
RegisterReject(p) ==
    /\ inflight[p].op = "register" /\ inflight[p].pc = "hashing"
    /\ \E salt \in Salts :
         LET hashed == BcryptHash(inflight[p].body.password, salt)
         IN  /\ ~hashed.ok
             /\ last' = Answered(inflight[p], RegisterResponse(Threw(hashed.message)))
    /\ inflight' = [inflight EXCEPT ![p] = Idle]
    /\ UNCHANGED <<table_exists, users, users_id_seq, registered, plain, credited,
                   updated, nreq>>

\* bcrypt.hash resolves and the INSERT runs
RegisterInsert(p) ==
    /\ inflight[p].op = "register" /\ inflight[p].pc = "hashing"
    /\ \E salt \in Salts :
         LET body == inflight[p].body
             hashed == BcryptHash(body.password, salt)
             ins == IF table_exists
                    THEN Insert(users, users_id_seq, body.email, body.username, hashed.hash)
                    ELSE [users |-> users, seq |-> users_id_seq,
                          res |-> Threw(RelationMissing)]
         IN  /\ hashed.ok
             /\ users' = ins.users
             /\ users_id_seq' = ins.seq
             /\ plain' = IF ins.res.ok
                         THEN [i \in DOMAIN plain \cup {ins.seq} |->
                                 IF i = ins.seq THEN Get(body.password) ELSE plain[i]]
                         ELSE plain
             /\ inflight' = [inflight EXCEPT ![p] =
                    [op |-> "register", pc |-> "inserted", body |-> body,
                     result |-> ins.res, dup |-> inflight[p].dup,
                     table |-> table_exists, stored |-> Stored(body),
                     seen |-> Ids(users)]]
    /\ UNCHANGED <<table_exists, last, registered, credited, updated, nreq>>

\* the continuation after the INSERT
RegisterRespond(p) ==
    /\ inflight[p].op = "register" /\ inflight[p].pc = "inserted"
    /\ LET resp == RegisterResponse(inflight[p].result)
       IN  /\ last' = Answered(inflight[p], resp)
           /\ registered' = IF resp.status = 200
                            THEN registered \cup
                                 {[id |-> resp.user.id, email |-> resp.user.email,
                                   username |-> resp.user.username,
                                   password |-> Get(inflight[p].body.password)]}
                            ELSE registered
    /\ inflight' = [inflight EXCEPT ![p] = Idle]
    /\ UNCHANGED <<table_exists, users, users_id_seq, plain, credited, updated, nreq>>

\* POST /api/login up to the end of the SELECT
Login(p) ==
    \E body \in LoginBodies :
        /\ Begin(p)
        /\ inflight' = [inflight EXCEPT ![p] =
               [op |-> "login", pc |-> "selected", body |-> body,
                result |-> IF table_exists THEN SelectByUsername(users, body.username)
                           ELSE Threw(RelationMissing),
                table |-> table_exists,
                cause |-> Cause(body), expect |-> Expect(body)]]
        /\ UNCHANGED <<table_exists, users, users_id_seq, last, registered, plain,
                       credited, updated>>

\* the login continuation sending the row as selected, password column included
LoginResponseWholeRow(res, password) ==
    IF ~res.ok THEN Fail(500, res.message)
    ELSE IF Len(res.rows) = 0 THEN Fail(401, InvalidLoginMessage)
    ELSE LET user == res.rows[1]
             cmp == BcryptCompare(password, user.password)
         IN  IF ~cmp.ok THEN Fail(500, cmp.message)
             ELSE IF ~cmp.valid THEN Fail(401, InvalidLoginMessage)
             ELSE Ok(user)

\* response of POST /api/login, from the outcome of the SELECT and of the
\* bcrypt.compare on the selected row
LoginResponse(res, password) ==
    IF ~res.ok THEN Fail(500, res.message)
    ELSE IF Len(res.rows) = 0 THEN Fail(401, InvalidLoginMessage)
    ELSE LET user == res.rows[1]
             cmp == BcryptCompare(password, user.password)
         IN  IF ~cmp.ok THEN Fail(500, cmp.message)
             ELSE IF ~cmp.valid THEN Fail(401, InvalidLoginMessage)
             ELSE Ok([id |-> user.id, email |-> user.email,
                      username |-> user.username, points |-> user.points])

\* the continuation after the SELECT when the SELECT threw or found no row:
\* it answers at once
LoginRefuse(p) ==
    /\ inflight[p].op = "login" /\ inflight[p].pc = "selected"
    /\ IF inflight[p].result.ok THEN Len(inflight[p].result.rows) = 0 ELSE TRUE
    /\ last' = Answered(inflight[p],
                        LoginResponse(inflight[p].result, inflight[p].body.password))
    /\ inflight' = [inflight EXCEPT ![p] = Idle]
    /\ UNCHANGED <<table_exists, users, users_id_seq, registered, plain, credited,
                   updated, nreq>>

\* the continuation after the SELECT when a row was found: up to
\* await bcrypt.compare
LoginCompare(p) ==
    /\ inflight[p].op = "login" /\ inflight[p].pc = "selected"
    /\ IF inflight[p].result.ok THEN Len(inflight[p].result.rows) > 0 ELSE FALSE
    /\ inflight' = [inflight EXCEPT ![p].pc = "comparing"]
    /\ UNCHANGED <<table_exists, users, users_id_seq, last, registered, plain, credited,
                   updated, nreq>>

\* the continuation after bcrypt.compare
LoginRespond(p) ==
    /\ inflight[p].op = "login" /\ inflight[p].pc = "comparing"
    /\ last' = Answered(inflight[p],
                        LoginResponse(inflight[p].result, inflight[p].body.password))
    /\ inflight' = [inflight EXCEPT ![p] = Idle]
    /\ UNCHANGED <<table_exists, users, users_id_seq, registered, plain, credited,
                   updated, nreq>>

\* POST /api/add-points up to the end of the UPDATE
AddPoints(p) ==
    \E body \in AddPointsBodies :
        LET upd == IF table_exists THEN UpdatePoints(users, body.points, body.userId)
                   ELSE [users |-> users, res |-> Threw(RelationMissing)]
        IN  /\ Begin(p)
            /\ users' = upd.users
            /\ inflight' = [inflight EXCEPT ![p] =
                   [op |-> "addPoints", pc |-> "updated", body |-> body,
                    result |-> upd.res, table |-> table_exists,
                    matched |-> Matching(users, body.userId) # {}]]
            /\ updated' = IF upd.res.ok THEN updated \cup Ids(upd.res.rows) ELSE updated
            /\ UNCHANGED <<table_exists, users_id_seq, last, registered, plain, credited>>

\* response of POST /api/add-points
AddPointsResponse(res) ==
    IF ~res.ok THEN Fail(500, res.message)
    ELSE IF Len(res.rows) = 0 THEN Fail(404, UserNotFoundMessage)
    ELSE Ok(res.rows[1])

\* the continuation after the UPDATE
AddPointsRespond(p) ==
    /\ inflight[p].op = "addPoints"
    /\ LET resp == AddPointsResponse(inflight[p].result)
       IN  /\ last' = Answered(inflight[p], resp)
           /\ credited' = IF resp.status = 200
                          THEN Credit(resp.user.id, inflight[p].body.points)
                          ELSE credited
    /\ inflight' = [inflight EXCEPT ![p] = Idle]
    /\ UNCHANGED <<table_exists, users, users_id_seq, registered, plain, updated, nreq>>

\* GET /api/user/:userId up to the end of the SELECT
GetUser(p) ==
    \E params \in GetUserParams :
        /\ Begin(p)
        /\ inflight' = [inflight EXCEPT ![p] =
               [op |-> "getUser", pc |-> "selected", body |-> params,
                result |-> IF table_exists THEN SelectById(users, params.userId)
                           ELSE Threw(RelationMissing),
                table |-> table_exists,
                announced |-> {a \in registered : Val(a.id) = params.userId},
                fresh |-> params.userId \notin {Val(i) : i \in updated}]]
        /\ UNCHANGED <<table_exists, users, users_id_seq, last, registered, plain,
                       credited, updated>>

\* response of GET /api/user/:userId
GetUserResponse(res) ==
    IF ~res.ok THEN Fail(500, res.message)
    ELSE IF Len(res.rows) = 0 THEN Fail(404, UserNotFoundMessage)
    ELSE Ok(res.rows[1])

\* the continuation after the SELECT
GetUserRespond(p) ==
    /\ inflight[p].op = "getUser"
    /\ last' = Answered(inflight[p], GetUserResponse(inflight[p].result))
    /\ inflight' = [inflight EXCEPT ![p] = Idle]
    /\ UNCHANGED <<table_exists, users, users_id_seq, registered, plain, credited,
                   updated, nreq>>

Next ==
    \/ CreateTable
    \/ \E p \in Procs :
        \/ Register(p)
        \/ RegisterReject(p)
        \/ RegisterInsert(p)
        \/ RegisterRespond(p)
        \/ Login(p)
        \/ LoginRefuse(p)
        \/ LoginCompare(p)
        \/ LoginRespond(p)
        \/ AddPoints(p)
        \/ AddPointsRespond(p)
        \/ GetUser(p)
        \/ GetUserRespond(p)

Spec == Init /\ [][Next]_vars

-----------------------------------------------------------------------------
(* Properties *)

\* the add-points statements that have hit the row of id and are not yet answered
Pending(id) ==
    {p \in Procs : /\ inflight[p].op = "addPoints"
                   /\ inflight[p].result.ok
                   /\ Len(inflight[p].result.rows) > 0
                   /\ inflight[p].body.userId = Val(id)}

RECURSIVE CreditAll(_, _)
CreditAll(c, ps) ==
    IF ps = {} THEN c
    ELSE LET p == CHOOSE q \in ps : TRUE
         IN  CreditAll(AddDelta(c, inflight[p].body.points), ps \ {p})

\* C1: no add-points update is lost.  As long as every delta applied to a
\* user is an integer, the user's points are the sum of the deltas of the calls
\* answered 200 plus the deltas of the calls whose UPDATE has run and whose
\* answer is still to come; once the calls are all answered, the points are
\* the sum of all their deltas, whatever the interleaving was.
C1_NoLostUpdate ==
    \A r \in Range(users) :
        LET total == CreditAll(CreditOf(r.id), Pending(r.id))
        IN  ~total.nulls => r.points # NULL /\ Wide(Get(r.points)) = total.sum

\* two add-points calls on the same user in flight at once, both applied
C1_Witness ==
    /\ \A p \in Procs : inflight[p].op = "addPoints" /\ inflight[p].body.points # NULL
    /\ \E r \in Range(users) :
         /\ Pending(r.id) = Procs
         /\ CreditOf(r.id) = NoCredit
         /\ r.points = Val(Get(inflight["h1"].body.points) + Get(inflight["h2"].body.points))

\* C2 (state part): a register call that arrives when its email or its
\* username is stored is answered 400 with success false.
C2_Rejected ==
    last.op = "register" /\ last.dup => last.res.status = 400 /\ ~last.res.success

\* C2 (step part): the INSERT of such a call leaves the table as it was.
C2_Step ==
    \A p \in Procs :
        /\ inflight[p].op = "register" /\ inflight[p].pc = "hashing"
        /\ inflight'[p].op = "register" /\ inflight'[p].pc = "inserted"
        /\ inflight[p].dup
        => users' = users

\* C2: a register call with a duplicate email or a duplicate username fails
\* with status 400 and success false, and stores or changes no record.
C2_DuplicateRegisterFails == []C2_Rejected /\ [][C2_Step]_vars

\* a register with a stored username and a new email was refused by the store
C2_Witness ==
    /\ last.op = "register" /\ last.dup /\ last.res.status = 400
    /\ last.res.message = DuplicateUsername
    /\ \A r \in Range(users) : Val(r.email) # last.body.email

\* C3: in every reachable state no two stored records share an email, a
\* username or an id.
C3_Unique ==
    \A i, j \in DOMAIN users :
        i # j => /\ users[i].email # users[j].email
                 /\ users[i].username # users[j].username
                 /\ users[i].id # users[j].id

\* two register calls with the same email, both arrived before either INSERT:
\* one stored, one refused
C3_Witness ==
    /\ \A p \in Procs : /\ inflight[p].op = "register" /\ inflight[p].pc = "inserted"
                        /\ ~inflight[p].dup
    /\ inflight["h1"].body.email = inflight["h2"].body.email
    /\ inflight["h1"].body.username # inflight["h2"].body.username
    /\ \E p, q \in Procs : inflight[p].result.ok /\ ~inflight[q].result.ok
    /\ Len(users) = 1

\* C4: a login with a username that matches no record and a login with a
\* stored username and a wrong password get the same response, status 401 with
\* the same body (stated for the logins whose SELECT the store has served).
C4_SameRefusal ==
    last.op = "login" /\ last.table /\ last.cause \in {"unknown", "wrong"}
        => last.res = Fail(401, InvalidLoginMessage)

\* C5 (state part), as claimed: an add-points call whose userId matches no
\* record is answered 404 with success false.
C5_NotFoundAlways ==
    last.op = "addPoints" /\ ~last.matched
        => last.res.status = 404 /\ ~last.res.success

\* C5 (state part), amended: so it is when the table users exists.
C5_NotFound ==
    last.op = "addPoints" /\ ~last.matched /\ last.table
        => last.res.status = 404 /\ ~last.res.success

\* C5 (state part), amended: without the table the call is answered 500 with
\* the store's error text.
C5_NoTable ==
    last.op = "addPoints" /\ ~last.table
        => last.res = Fail(500, RelationMissing)

\* C5 (step part): its UPDATE leaves every record as it was.
C5_Step ==
    \A p \in Procs :
        inflight[p] = Idle /\ inflight'[p].op = "addPoints" /\ ~inflight'[p].matched
            => users' = users

\* C5 as claimed: an add-points call on an id that matches no stored record
\* fails with status 404 and success false, and changes no stored record.
C5_Original == []C5_NotFoundAlways /\ [][C5_Step]_vars

\* C5 amended: an add-points call on an id that matches no stored record
\* changes no stored record and fails, with status 404 when the table users
\* exists and with status 500 when it does not.
C5_UnknownIdChangesNothing == [](C5_NotFound /\ C5_NoTable) /\ [][C5_Step]_vars

\* an add-points on an unknown id was answered 404 while another user is stored
C5_Witness ==
    /\ last.op = "addPoints" /\ ~last.matched /\ last.body.userId # NULL
    /\ last.res.status = 404
    /\ Len(users) > 0

WellFormed(body) == \A f \in DOMAIN body : body[f] # NULL

\* the response to a register that stored its record
Created(req) ==
    /\ req.res.status = 200
    /\ req.res.user.id \notin req.seen
    /\ Val(req.res.user.email) = req.body.email
    /\ Val(req.res.user.username) = req.body.username
    /\ req.res.user.points = Val(0)

\* a get-user on an id announced by a register response, run before any
\* add-points on that id, returns the registered email and username, points 0
GetAfterRegister ==
    last.op = "getUser" /\ last.fresh
        => \A a \in last.announced :
              last.res = Ok([id |-> a.id, email |-> a.email,
                             username |-> a.username, points |-> Val(0)])

\* C6 as claimed: a register call with all its fields that arrives when its
\* email and username are not stored is answered 200 with a new id, and a
\* get-user on that id before any add-points returns the registered email and
\* username and points 0.
C6_Original ==
    /\ last.op = "register" /\ WellFormed(last.body) /\ ~last.dup => Created(last)
    /\ GetAfterRegister

\* C6 amended: a register call with all its fields whose INSERT runs when the
\* table users exists and holds neither its email nor its username is
\* answered 200 with a new id and the registered email and username; a
\* get-user on an id announced by a register response, run before any
\* add-points on that id, is answered 200 with the registered email and
\* username and points 0.
C6_RegisterThenGet ==
    /\ last.op = "register" /\ WellFormed(last.body) /\ last.table /\ ~last.stored
         => Created(last)
    /\ GetAfterRegister

\* a get-user on the second registered account was answered
C6_Witness ==
    /\ last.op = "getUser" /\ last.fresh /\ last.announced # {}
    /\ last.res.status = 200
    /\ Len(users) = 2

\* C7: once a register response has announced an account, every login with
\* its username and password is answered 200 with the announced id, email and
\* username and the points the user has when the login reads the record.
C7_LoginAfterRegister ==
    last.op = "login" /\ last.expect # {}
        => \E e \in last.expect : last.expect = {e} /\ last.res = Ok(e)

\* a login after an add-points on the account was answered
C7_Witness ==
    /\ last.op = "login" /\ last.expect # {} /\ last.res.status = 200
    /\ last.res.user.points # Val(0)

RegisterFields == {"id", "email", "username", "points"}
AddPointsFields == {"id", "username", "points"}

\* the texts that handlers send as message
Messages ==
    {InvalidLoginMessage, UserNotFoundMessage, HashArgumentsRequired,
     CompareArgumentsRequired, NotNullEmail, NotNullUsername, DuplicateId,
     DuplicateEmail, DuplicateUsername, IntegerOutOfRange, RelationMissing}

\* C8: no response carries the stored password hash.  A success response
\* carries a user with the fields id, email, username and points only (id,
\* username and points for add-points); a failure response carries a message
\* that is one of the fixed texts.
C8_NoHashInResponse ==
    last.op # "none" =>
        IF last.res.status = 200
        THEN /\ DOMAIN last.res = {"status", "success", "user"}
             /\ DOMAIN last.res.user =
                    IF last.op = "addPoints" THEN AddPointsFields ELSE RegisterFields
        ELSE /\ DOMAIN last.res = {"status", "success", "message"}
             /\ last.res.message \in Messages

\* a login that read a record, hash included, was answered 200
C8_Witness ==
    /\ last.op = "login" /\ last.res.status = 200
    /\ \E r \in Range(users) : r.id = last.res.user.id /\ "password" \in DOMAIN r

\* C9: every failed login, whatever its cause, is answered 401 with the one
\* fixed message (stated for the logins whose SELECT the store has served).
C9_AlwaysGeneric401 ==
    last.op = "login" /\ last.table /\ last.res.status # 200
        => last.res.status = 401 /\ last.res.message = InvalidLoginMessage

\* C10: every stored user's points are an integer, never NULL, and once the
\* add-points calls on the user are all answered they are the sum of the
\* deltas of those answered 200.
C10_PointsAreCreditedSum ==
    \A r \in Range(users) :
        /\ r.points # NULL
        /\ Pending(r.id) = {} => Wide(Get(r.points)) = CreditOf(r.id).sum

====
